---------------------------- MODULE Spec2Model ----------------------------
(* Model of the console loader of bn_falkon/utils/customization.py:       *)
(* BaseLoader.__init__, __enter__, _animate and __exit__, run by a caller *)
(* thread and one background animation thread per started scope.          *)
(* Text is modelled as a sequence of Unicode code points, so that len(),  *)
(* concatenation and the layout of a printed line are what Python         *)
(* computes. The terminal is the sequence "out" of the print() calls.     *)
EXTENDS Integers, Sequences, FiniteSets, TLC

(* ------------------------------ bounds ------------------------------ *)

\* frames the animation threads of the loader may draw, all scopes together,
\* before the caller calls stop
MaxFrames == 3
\* number of __enter__ calls on the loader
MaxScopes == 2

(* ------------------------- text and constants ------------------------ *)

CR == 13
SP == 32
LF == 10

\* " " * n
RECURSIVE Spaces(_)
Spaces(n) == IF n <= 0 THEN <<>> ELSE <<SP>> \o Spaces(n - 1)

\* class attribute VALID_POSITIONS
VALID_POSITIONS == <<"front", "end">>

\* x in seq, for a Python list
InList(x, seq) == \E i \in 1..Len(seq) : seq[i] = x

\* the split, had the separator been one that does not occur in the text
SplitOnSpace_OtherSeparator(s) == <<s>>

\* str.split(' '): the pieces between single spaces, empty ones included
RECURSIVE SplitOnSpace(_)
SplitOnSpace(s) ==
  IF \A i \in 1..Len(s) : s[i] # SP
    THEN <<s>>
    ELSE LET k == CHOOSE i \in 1..Len(s) :
                    s[i] = SP /\ \A j \in 1..(i - 1) : s[j] # SP
         IN <<SubSeq(s, 1, k - 1)>> \o SplitOnSpace(SubSeq(s, k + 1, Len(s)))

\* class attribute ANIMATION_STEPS of each loader class, as code points
ANIMATION_STEPS(c) ==
  CASE c = "BaseLoader" ->
         <<>>
    [] c = "SimpleLoader" ->
         <<<<124>>, <<47>>, <<43>>, <<45>>, <<92>>>>
    [] c = "LineLoader" ->
         <<<<10431>>, <<10491>>, <<10493>>, <<10494>>, <<10487>>,
         <<10479>>, <<10463>>, <<10367>>>>
    [] c = "GrowthLoader" ->
         <<<<183>>, <<8226>>, <<9679>>, <<8226>>, <<183>>>>
    [] c = "CircleLoader" ->
         <<<<9683>>, <<9681>>, <<9682>>, <<9680>>>>
    [] c = "PulseLoader" ->
         <<<<8226>>, <<9675>>, <<8226>>, <<183>>, <<9679>>, <<183>>>>
    [] c = "OOOLoader" ->
         <<<<48>>, <<79>>, <<111>>, <<43>>, <<183>>>>
    [] c = "WaitLoader" ->
         <<<<87>>, <<65>>, <<73>>, <<84>>>>
    [] c = "RocketLoader" ->
         <<<<124>>, <<47>>, <<94>>, <<45>>, <<92>>, <<124>>, <<95>>>>
    [] c = "StarLoader" ->
         <<<<10038>>, <<10039>>, <<10040>>, <<10041>>, <<10042>>>>
    [] c = "StarsLoader" ->
         SplitOnSpace(<<10025, 32, 10026, 32, 10027, 32, 10028, 32,
         10029, 32, 10031, 32, 10032, 32, 9733, 32, 10033, 32, 10034, 32,
         10035, 32, 10036, 32, 10037, 32, 10038, 32, 10039, 32, 10040,
         32, 10041, 32, 10042, 32, 10043, 32, 10044, 32, 10045, 32,
         10046, 32, 10047, 32, 10048, 32, 10049, 32, 10050, 32, 10051,
         32, 10052, 32, 10053, 32, 10054, 32, 10055, 32, 10056, 32,
         10057, 32, 10058, 32, 10059>>)
    [] c = "CircleDigitLoader" ->
         SplitOnSpace(<<10112, 32, 10113, 32, 10114, 32, 10115, 32,
         10116, 32, 10117, 32, 10118, 32, 10119, 32, 10120, 32, 10121>>)
    [] c = "HourglassLoader" ->
         <<<<8987>>, <<8987>>, <<8987>>, <<9203>>, <<9203>>, <<9203>>>>
    [] c = "ClockLoader" ->
         <<<<9202>>, <<8986>>>>
    [] c = "ArrowLoader" ->
         SplitOnSpace(<<9654, 32, 9655, 32, 9658, 32, 9659, 32, 9656, 32,
         9657>>)
    [] c = "AtomicLoader" ->
         <<<<9738>>, <<9739>>, <<9740>>, <<9741>>>>
    [] c = "DigitLoader" ->
         <<<<48>>, <<49>>, <<50>>, <<51>>, <<52>>, <<53>>, <<54>>,
         <<55>>, <<56>>, <<57>>>>
    [] c = "BounceLoader" ->
         <<<<60, 8226, 32>>, <<60, 8226, 62>>, <<32, 8226, 62>>, <<32,
         8226, 32>>>>
    [] c = "DotLoader" ->
         <<<<183>>, <<8226>>, <<8226, 8226>>, <<8226, 8226, 8226>>,
         <<8226, 8226, 8226, 8226>>, <<8226, 8226, 8226>>, <<8226,
         8226>>, <<8226>>>>
    [] c = "BartLoader" ->
         <<<<95>>, <<9601>>, <<9602>>, <<9603>>, <<9604>>, <<9605>>,
         <<9606>>, <<9607>>, <<9608>>, <<9607>>, <<9606>>, <<9605>>,
         <<9604>>, <<9603>>, <<9602>>, <<9601>>, <<95>>>>

(* --------------------------- input domains --------------------------- *)

\* loader classes the caller instantiates
Classes == {"BaseLoader", "ClockLoader", "BounceLoader"}
\* values passed as desc: "ab"
Descs == {<<97, 98>>}
\* values passed as end: "Ok"
Ends == {<<79, 107>>}
\* values passed as timeout (seconds; time.sleep rejects a negative one)
Timeouts == {-1, 1}
\* values passed as position
Positions == {"front", "end", "Front", "middle"}
\* str(e) of a fault caught in the animation thread: "E"
FaultMsgs == {<<69>>}

NoConfig == [desc |-> <<>>, end |-> <<>>, timeout |-> 0, position |-> "none"]

(* ------------------------------- state ------------------------------- *)

VARIABLES
  callerPc,    \* position of the caller thread
  cls,         \* class of the loader being constructed / used
  config,      \* self._config
  done,        \* self._done
  lock,        \* holder of self._lock: "free", "caller" or "thread"
  hasThread,   \* whether the attribute self._thread exists
  threadPc,    \* position of the thread self._thread refers to
  step_count,  \* local variable of _animate
  exitCause,   \* how the current thread left _animate
  scope,       \* number of __enter__ calls so far
  frames,      \* frames drawn by the current thread
  stopCalls,   \* number of __exit__ calls so far
  out          \* the print() calls made so far, in order

vars == <<callerPc, cls, config, done, lock, hasThread, threadPc, step_count,
          exitCause, scope, frames, stopCalls, out>>

callerVars == <<callerPc, cls, config, hasThread, scope, stopCalls>>
threadVars == <<threadPc, step_count, exitCause, frames>>

Init ==
  /\ callerPc = "new"
  /\ cls = "none"
  /\ config = NoConfig
  /\ done = FALSE
  /\ lock = "free"
  /\ hasThread = FALSE
  /\ threadPc = "none"
  /\ step_count = 0
  /\ exitCause = "none"
  /\ scope = 0
  /\ frames = 0
  /\ stopCalls = 0
  /\ out = <<>>

(* --------------------------- BaseLoader.__init__ --------------------- *)

\* the guard, had it compared the position without regard to case
PositionValid_IgnoreCase(position) ==
  InList(position, VALID_POSITIONS) \/ position = "Front"

\* the first guard of __init__
PositionValid(position) == InList(position, VALID_POSITIONS)

\* the guard, had it been left out
StepsEmpty_Unchecked(c) == FALSE

\* the second guard of __init__ ("not self.ANIMATION_STEPS")
StepsEmpty(c) == Len(ANIMATION_STEPS(c)) = 0

\* __init__ raises ValueError
InitRaises(c, position) == ~PositionValid(position) \/ StepsEmpty(c)

\* __init__, had it created the loader with the flag already set
Construct_FlagSet ==
  /\ callerPc = "new"
  /\ \E c \in Classes, d \in Descs, e \in Ends, t \in Timeouts, p \in Positions :
       /\ cls' = c
       /\ config' = [desc |-> d, end |-> e, timeout |-> t, position |-> p]
       /\ done' = TRUE
       /\ lock' = "free"
       /\ callerPc' = IF InitRaises(c, p) THEN "configError" ELSE "idle"
  /\ UNCHANGED <<hasThread, threadVars, scope, stopCalls, out>>

\* "self._config = {...}", "self._done = False", "self._lock = Lock()" and
\* the two guards
Construct ==
  /\ callerPc = "new"
  /\ \E c \in Classes, d \in Descs, e \in Ends, t \in Timeouts, p \in Positions :
       /\ cls' = c
       /\ config' = [desc |-> d, end |-> e, timeout |-> t, position |-> p]
       /\ done' = FALSE
       /\ lock' = "free"
       /\ callerPc' = IF InitRaises(c, p) THEN "configError" ELSE "idle"
  /\ UNCHANGED <<hasThread, threadVars, scope, stopCalls, out>>

(* --------------------------- BaseLoader.__enter__ -------------------- *)

\* "with self._lock:" of __enter__
EnterAcquire ==
  /\ callerPc = "idle"
  /\ scope < MaxScopes
  /\ lock = "free"
  /\ lock' = "caller"
  /\ callerPc' = "enter_locked"
  /\ UNCHANGED <<cls, config, done, hasThread, threadVars, scope, stopCalls, out>>

\* the step, had __enter__ not reset the flag
EnterSetFlag_NoReset ==
  /\ callerPc = "enter_locked"
  /\ done' = done
  /\ lock' = "free"
  /\ callerPc' = "enter_spawn"
  /\ UNCHANGED <<cls, config, hasThread, threadVars, scope, stopCalls, out>>

\* "self._done = False" and the release of the lock
EnterSetFlag ==
  /\ callerPc = "enter_locked"
  /\ done' = FALSE
  /\ lock' = "free"
  /\ callerPc' = "enter_spawn"
  /\ UNCHANGED <<cls, config, hasThread, threadVars, scope, stopCalls, out>>

\* "self._thread = Thread(...)", "self._thread.start()" and the
\* "step_count = 0" of the new thread
EnterSpawn ==
  /\ callerPc = "enter_spawn"
  /\ hasThread' = TRUE
  /\ threadPc' = "lock"
  /\ step_count' = 0
  /\ exitCause' = "none"
  /\ frames' = 0
  /\ scope' = scope + 1
  /\ callerPc' = "running"
  /\ UNCHANGED <<cls, config, done, lock, stopCalls, out>>

(* --------------------------- BaseLoader._animate --------------------- *)

\* one print() call, as recorded in out
Write(src, kind, sc, idx, text) ==
  [src |-> src, kind |-> kind, scope |-> sc, idx |-> idx, text |-> text]

\* the pair, had the two branches been exchanged
PrefixSuffix_Swapped(c, cfg, step) ==
  IF cfg.position = "front"
    THEN <<cfg.desc, ANIMATION_STEPS(c)[step + 1]>>
    ELSE <<ANIMATION_STEPS(c)[step + 1], cfg.desc>>

\* "prefix, suffix = ..." of _animate
PrefixSuffix(c, cfg, step) ==
  IF cfg.position = "front"
    THEN <<ANIMATION_STEPS(c)[step + 1], cfg.desc>>
    ELSE <<cfg.desc, ANIMATION_STEPS(c)[step + 1]>>

\* f"\r{prefix} {suffix}"
FrameLine(c, cfg, step) ==
  <<CR>> \o PrefixSuffix(c, cfg, step)[1] \o <<SP>> \o PrefixSuffix(c, cfg, step)[2]

\* the increment, had the wrap-around been left out
NextStep_NoWrap(c, step) == step + 1

\* "(step_count + 1) % len(self.ANIMATION_STEPS)"
NextStep(c, step) == (step + 1) % Len(ANIMATION_STEPS(c))

\* "Animation thread error: "
FaultPrefix ==
  <<65, 110, 105, 109, 97, 116, 105, 111, 110, 32, 116, 104, 114, 101, 97,
    100, 32, 101, 114, 114, 111, 114, 58, 32>>

\* f"Animation thread error: {e}" and the newline print() adds
FaultLine(msg) == FaultPrefix \o msg \o <<LF>>

\* frames drawn so far, all scopes together
FramesDrawn == Cardinality({i \in 1..Len(out) : out[i].kind = "frame"})

\* the step, had the thread read the flag without waiting for the lock
AnimateAcquire_NoWait ==
  /\ threadPc = "lock"
  /\ done \/ FramesDrawn < MaxFrames
  /\ lock' = "thread"
  /\ threadPc' = "check"
  /\ UNCHANGED <<callerVars, done, step_count, exitCause, frames, out>>

\* "with self._lock:" of _animate. The guard on FramesDrawn bounds the
\* number of iterations made before the caller sets the flag.
AnimateAcquire ==
  /\ threadPc = "lock"
  /\ lock = "free"
  /\ done \/ FramesDrawn < MaxFrames
  /\ lock' = "thread"
  /\ threadPc' = "check"
  /\ UNCHANGED <<callerVars, done, step_count, exitCause, frames, out>>

\* the check, had the loop condition been left at "while True" alone
AnimateCheck_IgnoresFlag ==
  /\ threadPc = "check"
  /\ lock' = "free"
  /\ threadPc' = "write"
  /\ exitCause' = exitCause
  /\ UNCHANGED <<callerVars, done, step_count, frames, out>>

\* the check, had the whole loop body been placed inside the with statement
AnimateCheck_HoldsLock ==
  /\ threadPc = "check"
  /\ IF done
       THEN lock' = "free" /\ threadPc' = "dead" /\ exitCause' = "break"
       ELSE lock' = lock /\ threadPc' = "write" /\ exitCause' = exitCause
  /\ UNCHANGED <<callerVars, done, step_count, frames, out>>

\* "if self._done: break", the release of the lock, and on break the return
\* of _animate
AnimateCheck ==
  /\ threadPc = "check"
  /\ lock' = "free"
  /\ IF done
       THEN threadPc' = "dead" /\ exitCause' = "break"
       ELSE threadPc' = "write" /\ exitCause' = exitCause
  /\ UNCHANGED <<callerVars, done, step_count, frames, out>>

\* the frame lookup and "print(f"\r{prefix} {suffix}", flush=True, end="")"
AnimateWrite ==
  /\ threadPc = "write"
  /\ out' = Append(out, Write("loop", "frame", scope, step_count,
                              FrameLine(cls, config, step_count)))
  /\ frames' = frames + 1
  /\ threadPc' = "sleep"
  /\ UNCHANGED <<callerVars, done, lock, step_count, exitCause>>

\* "sleep(self._config["timeout"])" returns
AnimateSleep ==
  /\ threadPc = "sleep"
  /\ config.timeout >= 0
  /\ threadPc' = "advance"
  /\ UNCHANGED <<callerVars, done, lock, step_count, exitCause, frames, out>>

\* "step_count = (step_count + 1) % len(self.ANIMATION_STEPS)"
AnimateAdvance ==
  /\ threadPc = "advance"
  /\ step_count' = NextStep(cls, step_count)
  /\ threadPc' = "lock"
  /\ UNCHANGED <<callerVars, done, lock, exitCause, frames, out>>

\* an Exception raised by print() or by sleep() (always, for a negative
\* timeout) reaches "except Exception as e"
AnimateFault ==
  /\ threadPc \in {"write", "sleep"}
  /\ threadPc' = "except"
  /\ UNCHANGED <<callerVars, done, lock, step_count, exitCause, frames, out>>

\* the handler, had it been placed inside the loop: the fault is logged and
\* the loop goes on
AnimateLogFault_Continue ==
  /\ threadPc = "except"
  /\ \E msg \in FaultMsgs :
       out' = Append(out, Write("loop", "fault", scope, -1, FaultLine(msg)))
  /\ threadPc' = "lock"
  /\ exitCause' = "fault"
  /\ UNCHANGED <<callerVars, done, lock, step_count, frames>>

\* "print(f"Animation thread error: {e}")" and the return of _animate
AnimateLogFault ==
  /\ threadPc = "except"
  /\ \E msg \in FaultMsgs :
       out' = Append(out, Write("loop", "fault", scope, -1, FaultLine(msg)))
  /\ threadPc' = "dead"
  /\ exitCause' = "fault"
  /\ UNCHANGED <<callerVars, done, lock, step_count, frames>>

\* the interrupt, had the lock been taken with acquire() and release()
\* instead of a with statement: the lock stays with the dead thread
AnimateInterrupt_KeepLock ==
  /\ threadPc \in {"lock", "check", "write", "sleep", "advance"}
  /\ lock' = lock
  /\ threadPc' = "dead"
  /\ exitCause' = "interrupt"
  /\ UNCHANGED <<callerVars, done, step_count, frames, out>>

\* a KeyboardInterrupt raised inside the try block reaches
\* "except KeyboardInterrupt: pass"; the with statement releases the lock
AnimateInterrupt ==
  /\ threadPc \in {"lock", "check", "write", "sleep", "advance"}
  /\ lock' = IF lock = "thread" THEN "free" ELSE lock
  /\ threadPc' = "dead"
  /\ exitCause' = "interrupt"
  /\ UNCHANGED <<callerVars, done, step_count, frames, out>>

(* --------------------------- BaseLoader.__exit__ --------------------- *)

\* "\r" + " " * (len(desc) + len(ANIMATION_STEPS[0]) + 1)
EraseLine(c, cfg) ==
  <<CR>> \o Spaces(Len(cfg.desc) + Len(ANIMATION_STEPS(c)[1]) + 1)

\* "\r\033[0;32m" and the marker glyph with its two spaces
CompletionPrefix == <<CR, 27, 91, 48, 59, 51, 50, 109, 9679, SP, SP>>

\* "\033[0m" and the newline print() adds
CompletionSuffix == <<27, 91, 48, 109, LF>>

\* the end message, had it printed the description instead of the end text
CompletionLine_Desc(cfg) == CompletionPrefix \o cfg.desc \o CompletionSuffix

\* f"\r\033[0;32m(marker)  {end}\033[0m"
CompletionLine(cfg) == CompletionPrefix \o cfg.end \o CompletionSuffix

\* __exit__ is called: once for each __enter__, or on a loader that was never
\* entered
ExitCall ==
  /\ \/ callerPc = "running"
     \/ callerPc = "idle" /\ ~hasThread
  /\ stopCalls' = stopCalls + 1
  /\ callerPc' = "exit_lock"
  /\ UNCHANGED <<cls, config, done, lock, hasThread, threadVars, scope, out>>

\* the step, had __exit__ assigned the flag without taking the lock
ExitAcquire_NoLock ==
  /\ callerPc = "exit_lock"
  /\ lock' = lock
  /\ callerPc' = "exit_locked"
  /\ UNCHANGED <<cls, config, done, hasThread, threadVars, scope, stopCalls, out>>

\* "with self._lock:" of __exit__
ExitAcquire ==
  /\ callerPc = "exit_lock"
  /\ lock = "free"
  /\ lock' = "caller"
  /\ callerPc' = "exit_locked"
  /\ UNCHANGED <<cls, config, done, hasThread, threadVars, scope, stopCalls, out>>

\* the step, had the assignment of the flag been left out
ExitSetFlag_NoAssign ==
  /\ callerPc = "exit_locked"
  /\ done' = done
  /\ lock' = "free"
  /\ callerPc' = "exit_erase"
  /\ UNCHANGED <<cls, config, hasThread, threadVars, scope, stopCalls, out>>

\* "self._done = True" and the release of the lock
ExitSetFlag ==
  /\ callerPc = "exit_locked"
  /\ done' = TRUE
  /\ lock' = "free"
  /\ callerPc' = "exit_erase"
  /\ UNCHANGED <<cls, config, hasThread, threadVars, scope, stopCalls, out>>

\* the print() that clears the animation
ExitErase ==
  /\ callerPc = "exit_erase"
  /\ out' = Append(out, Write("stop", "erase", scope, -1, EraseLine(cls, config)))
  /\ callerPc' = "exit_print"
  /\ UNCHANGED <<cls, config, done, lock, hasThread, threadVars, scope,
                 stopCalls>>

\* the print, had it also stored the end text as the description
ExitComplete_Rebinds ==
  /\ callerPc = "exit_print"
  /\ out' = Append(out, Write("stop", "completion", scope, -1, CompletionLine(config)))
  /\ config' = [config EXCEPT !.desc = config.end]
  /\ callerPc' = "exit_join"
  /\ UNCHANGED <<cls, done, lock, hasThread, threadVars, scope, stopCalls>>

\* the print() of the end message
ExitComplete ==
  /\ callerPc = "exit_print"
  /\ out' = Append(out, Write("stop", "completion", scope, -1, CompletionLine(config)))
  /\ callerPc' = "exit_join"
  /\ UNCHANGED <<cls, config, done, lock, hasThread, threadVars, scope,
                 stopCalls>>

\* join(), had it been called with a timeout that can expire
JoinReturns_Timeout(pc) == TRUE

\* Thread.join() returns only when the thread has finished
JoinReturns(pc) == pc = "dead"

\* "self._thread.join()" returns and so does __exit__
ExitJoin ==
  /\ callerPc = "exit_join"
  /\ hasThread
  /\ JoinReturns(threadPc)
  /\ callerPc' = "idle"
  /\ UNCHANGED <<cls, config, done, lock, hasThread, threadVars, scope,
                 stopCalls, out>>

\* the join, had __exit__ skipped it when no thread was ever started
ExitJoinNoThread_Returns ==
  /\ callerPc = "exit_join"
  /\ ~hasThread
  /\ callerPc' = "idle"
  /\ UNCHANGED <<cls, config, done, lock, hasThread, threadVars, scope,
                 stopCalls, out>>

\* "self._thread" raises AttributeError when __enter__ never ran
ExitJoinNoThread ==
  /\ callerPc = "exit_join"
  /\ ~hasThread
  /\ callerPc' = "attrError"
  /\ UNCHANGED <<cls, config, done, lock, hasThread, threadVars, scope,
                 stopCalls, out>>

(* ---------------------------- specification -------------------------- *)

CallerStep ==
  \/ Construct
  \/ EnterAcquire \/ EnterSetFlag \/ EnterSpawn
  \/ ExitCall \/ ExitAcquire \/ ExitSetFlag \/ ExitErase \/ ExitComplete
  \/ ExitJoin \/ ExitJoinNoThread

ThreadStep ==
  \/ AnimateAcquire \/ AnimateCheck \/ AnimateWrite \/ AnimateSleep
  \/ AnimateAdvance \/ AnimateFault \/ AnimateLogFault \/ AnimateInterrupt

Next == CallerStep \/ ThreadStep

Spec == Init /\ [][Next]_vars

\* the steps the animation thread takes when it is scheduled: every step of
\* _animate but the faults and interrupts of its environment; a sleep with a
\* negative timeout always raises
ThreadProgress ==
  \/ AnimateAcquire \/ AnimateCheck \/ AnimateWrite \/ AnimateSleep
  \/ AnimateAdvance \/ AnimateLogFault
  \/ (threadPc = "sleep" /\ config.timeout < 0 /\ AnimateFault)

\* the steps the caller takes inside __exit__ once it holds the lock
ExitProgress == ExitSetFlag \/ ExitErase \/ ExitComplete \/ ExitJoin

\* Both threads keep running once a call of __exit__ is under way. The lock
\* is free during every sleep of the animation thread, so a caller blocked
\* on it obtains it (strong fairness of ExitAcquire).
LiveSpec ==
  /\ Init /\ [][Next]_vars
  /\ WF_vars(ThreadProgress)
  /\ SF_vars(ExitAcquire)
  /\ WF_vars(ExitProgress)

(* ------------------------- reading the terminal ---------------------- *)

\* positions of out
Writes == 1..Len(out)

\* sub occurs in text
Contains(text, sub) ==
  \E k \in 0..(Len(text) - Len(sub)) : SubSeq(text, k + 1, k + Len(sub)) = sub

\* text starts with pre / ends with suf
StartsWith(text, pre) ==
  Len(text) >= Len(pre) /\ SubSeq(text, 1, Len(pre)) = pre
EndsWith(text, suf) ==
  Len(text) >= Len(suf) /\ SubSeq(text, Len(text) - Len(suf) + 1, Len(text)) = suf

\* a printed line that shows the green marker and ends the line
LooksLikeCompletion(text) ==
  /\ StartsWith(text, <<CR, 27, 91, 48, 59, 51, 50, 109, 9679>>)
  /\ EndsWith(text, <<LF>>)

\* a call of __exit__ on a started loader has returned and no new scope has
\* been opened since
StopReturned ==
  /\ callerPc \in {"idle", "enter_locked", "enter_spawn"}
  /\ hasThread

\* the caller is inside __exit__ and has not yet printed the end message
BeforeCompletion == callerPc \in {"exit_lock", "exit_locked", "exit_erase", "exit_print"}

(* -------------------------------- claims ----------------------------- *)

\* C1: once __exit__ has returned, the animation thread started by the
\* matching __enter__ has terminated, and nothing is printed from then on
\* until the loader is started again.
C1_NoWriteAfterStop ==
  /\ [](StopReturned => threadPc = "dead")
  /\ [][StopReturned => out' = out]_vars

\* __exit__ returned after the thread drew frames and left through break
C1_Witness ==
  StopReturned /\ callerPc = "idle" /\ exitCause = "break" /\ frames > 0

\* C2: no frame is drawn after __exit__ has printed the end message of the
\* same scope (the end message is the last thing the scope prints).
C2_CompletionIsLast ==
  \A i, j \in Writes :
    (i < j /\ out[i].kind = "completion" /\ out[i].scope = out[j].scope)
      => out[j].kind # "frame"

\* C3: every call of __exit__ on a started loader returns: once the flag is
\* set the animation thread sees it and ends, and join() returns.
C3_StopReturns ==
  (callerPc = "exit_lock" /\ hasThread) ~> (callerPc = "idle")

\* __exit__ returned although the thread was still looping when it was called
C3_Witness ==
  callerPc = "idle" /\ stopCalls = 1 /\ exitCause = "break" /\ frames > 0

\* C4: every call of __exit__ prints exactly one end message, and it
\* contains the configured end text, whatever the thread did before.
C4_OneCompletionPerStop ==
  LET n == Cardinality({i \in Writes : LooksLikeCompletion(out[i].text)}) IN
    /\ n = IF BeforeCompletion THEN stopCalls - 1 ELSE stopCalls
    /\ \A i \in Writes :
         LooksLikeCompletion(out[i].text) =>
           /\ out[i].src = "stop"
           /\ Contains(out[i].text, config.end)
           /\ i > 1 /\ out[i - 1].kind # "completion"

\* two calls have returned, one of them on a thread that never drew a frame
C4_Witness ==
  /\ callerPc = "idle" /\ stopCalls = 2
  /\ \E s \in 1..scope : \A i \in Writes : out[i].scope = s => out[i].kind # "frame"

\* the end message of the current scope has been printed after its erase line
ScopeCleanedUp ==
  \E i, j \in Writes :
    /\ i < j
    /\ out[i].kind = "erase" /\ out[i].scope = scope
    /\ out[j].kind = "completion" /\ out[j].scope = scope

\* the error messages the thread of scope s has printed
FaultWrites(s) == {i \in Writes : out[i].kind = "fault" /\ out[i].scope = s}

\* C5: a fault raised in the animation loop is caught in the thread, logged
\* there with one message, and ends the loop; the caller never sees it, and
\* a later __exit__ sets the flag, erases, prints the end message, joins and
\* returns.
C5_FaultContained ==
  /\ threadPc = "except" => (FaultWrites(scope) = {} /\ lock # "thread")
  /\ exitCause = "fault" =>
       /\ threadPc = "dead"
       /\ Cardinality(FaultWrites(scope)) = 1
       /\ \A i \in FaultWrites(scope) :
            /\ StartsWith(out[i].text, FaultPrefix)
            /\ \A j \in Writes : j > i => out[j].src # "loop"
       /\ callerPc \notin {"configError", "attrError"}
       /\ (callerPc = "idle" /\ hasThread) => (done /\ ScopeCleanedUp)

\* __exit__ has returned on a loader whose thread had faulted
C5_Witness ==
  exitCause = "fault" /\ callerPc = "idle" /\ stopCalls >= 1 /\ frames = 1

\* C6: a KeyboardInterrupt delivered to the animation loop ends it silently:
\* the thread prints no error message and keeps no lock, the caller sees no
\* error, and a later __exit__ erases, prints the end message, joins and
\* returns.
C6_InterruptSilent ==
  exitCause = "interrupt" =>
    /\ threadPc = "dead"
    /\ lock # "thread"
    /\ FaultWrites(scope) = {}
    /\ callerPc \notin {"configError", "attrError"}
    /\ (callerPc = "idle" /\ hasThread) => (done /\ ScopeCleanedUp)

\* __exit__ has returned on a loader whose thread had been interrupted after
\* drawing a frame
C6_Witness ==
  exitCause = "interrupt" /\ callerPc = "idle" /\ stopCalls >= 1 /\ frames = 1

\* C7: constructing a loader with a position other than "front" and "end"
\* raises, for every class and every other argument; no thread is started
\* and nothing is printed.
C7_InvalidPositionRejected ==
  (callerPc # "new" /\ config.position \notin {"front", "end"}) =>
    /\ callerPc = "configError"
    /\ ~hasThread /\ threadPc = "none"
    /\ out = <<>>

\* a class with frames was given an invalid position
C7_Witness ==
  callerPc = "configError" /\ config.position = "middle" /\ cls = "ClockLoader"

\* C8: constructing a loader of a class whose ANIMATION_STEPS is empty
\* raises, so no such loader is ever started or stopped.
C8_EmptyFramesRejected ==
  (callerPc # "new" /\ Len(ANIMATION_STEPS(cls)) = 0) =>
    /\ callerPc = "configError"
    /\ ~hasThread /\ threadPc = "none"
    /\ scope = 0 /\ stopCalls = 0
    /\ out = <<>>

\* the base class was given a valid position
C8_Witness ==
  callerPc = "configError" /\ cls = "BaseLoader" /\ config.position = "front"

\* text is "\r" + first + " " + second
HasForm(text, first, second) ==
  /\ Len(text) = Len(first) + Len(second) + 2
  /\ text[1] = CR
  /\ SubSeq(text, 2, Len(first) + 1) = first
  /\ text[Len(first) + 2] = SP
  /\ SubSeq(text, Len(first) + 3, Len(text)) = second

\* C9: every line the loop prints is "<frame> <label>" for position "front"
\* and "<label> <frame>" for position "end", the frame being the element of
\* ANIMATION_STEPS at the current step_count.
C9_LineForm ==
  \A i \in Writes :
    out[i].kind = "frame" =>
      LET frame == ANIMATION_STEPS(cls)[out[i].idx + 1] IN
        /\ config.position = "front" => HasForm(out[i].text, frame, config.desc)
        /\ config.position = "end" => HasForm(out[i].text, config.desc, frame)
        /\ (config.position = "end" /\ frame # config.desc)
             => ~StartsWith(out[i].text, <<CR>> \o frame \o <<SP>>)

\* a loader with position "end" and three-character frames has drawn its
\* second frame
C9_Witness ==
  /\ config.position = "end" /\ cls = "BounceLoader"
  /\ \E i \in Writes : out[i].kind = "frame" /\ out[i].idx = 1

\* the frames the thread of scope s has drawn, in order
FramesOf(s) == SelectSeq(out, LAMBDA w : w.kind = "frame" /\ w.scope = s)

\* iterations of the loop the current thread has completed
Iterations == IF threadPc \in {"sleep", "advance"} THEN frames - 1 ELSE frames

\* C10: in every scope the k-th frame drawn is frame (k-1) mod N of the
\* class's N frames, so the index is back at its start after N iterations,
\* and every __enter__ starts again at the first frame.
C10_CyclicFrames ==
  LET N == Len(ANIMATION_STEPS(cls)) IN
    /\ \A s \in 1..scope :
         \A k \in 1..Len(FramesOf(s)) :
           /\ FramesOf(s)[k].idx = (k - 1) % N
           /\ Contains(FramesOf(s)[k].text, ANIMATION_STEPS(cls)[((k - 1) % N) + 1])
    /\ threadPc \in {"lock", "check", "write", "sleep", "advance"}
         => step_count = Iterations % N

\* in its second scope a two-frame loader is back at its first frame after
\* two iterations
C10_Witness ==
  /\ cls = "ClockLoader" /\ scope = 2 /\ threadPc = "lock"
  /\ frames = 3 /\ step_count = 1
  /\ FramesOf(2)[3].text = FramesOf(2)[1].text

\* the thread is inside _animate
ThreadAlive == threadPc \in {"lock", "check", "write", "sleep", "advance", "except"}

\* C12: over alternating __enter__ / __exit__ calls every __enter__ resets
\* the flag to False and starts a fresh thread, and the thread of the
\* previous scope has ended before the next one is started, so at most one
\* animation thread of the loader is alive.
C12_OneLoopPerScope ==
  /\ [](callerPc \in {"idle", "enter_locked", "enter_spawn"} => ~ThreadAlive)
  /\ [](callerPc \in {"enter_spawn", "running"} => ~done)
  /\ [][(callerPc = "enter_spawn" /\ callerPc' # callerPc)
          => /\ ~ThreadAlive
             /\ threadPc' = "lock" /\ step_count' = 0 /\ ~done'
             /\ scope' = scope + 1]_vars

\* the thread of the second scope is drawing
C12_Witness ==
  scope = 2 /\ callerPc = "running" /\ threadPc = "write" /\ Len(out) > 0

\* positions of out holding a print of the given kind
WritesOf(kind) == {i \in Writes : out[i].kind = kind}

\* C14: in every __exit__ the flag is set under the lock, then the erase
\* line is printed, then the end message, and only then does the caller
\* wait in join(); no step starts before the one before it has finished.
C14_StopOrder ==
  LET erased == Cardinality(WritesOf("erase"))
      completed == Cardinality(WritesOf("completion"))
  IN
    /\ callerPc = "exit_lock" =>
         (erased = stopCalls - 1 /\ completed = stopCalls - 1)
    /\ callerPc = "exit_locked" =>
         (lock = "caller" /\ erased = stopCalls - 1 /\ completed = stopCalls - 1)
    /\ callerPc = "exit_erase" =>
         (done /\ lock # "caller" /\ erased = stopCalls - 1 /\ completed = stopCalls - 1)
    /\ callerPc = "exit_print" =>
         (done /\ lock # "caller" /\ erased = stopCalls /\ completed = stopCalls - 1)
    /\ callerPc \in {"exit_join", "attrError"} =>
         (done /\ lock # "caller" /\ erased = stopCalls /\ completed = stopCalls)
    /\ \A j \in WritesOf("completion") :
         \E i \in WritesOf("erase") :
           /\ i < j /\ out[i].scope = out[j].scope
           /\ \A k \in (i + 1)..(j - 1) : out[k].src = "loop"

\* the caller waits in join() for a thread that is still asleep, having
\* printed the erase line and the end message
C14_Witness ==
  /\ callerPc = "exit_join" /\ threadPc = "sleep"
  /\ out[Len(out)].kind = "completion" /\ out[Len(out) - 1].kind = "erase"

\* C15: while an animation thread exists the flag is read by the thread and
\* written by __enter__ and __exit__ only with the lock held, and the
\* caller and the thread never hold the lock together.
C15_FlagUnderLock ==
  /\ [](threadPc = "check" => lock = "thread")
  /\ [](callerPc \in {"enter_locked", "exit_locked"} => lock = "caller")
  /\ [](~(threadPc = "check" /\ callerPc \in {"enter_locked", "exit_locked"}))
  /\ [][done' # done => (lock = "caller" /\ lock' = "free")]_vars
  /\ [][(threadPc = "check" /\ threadPc' \in {"write", "dead"} /\ exitCause' # "interrupt")
          => (lock = "thread" /\ (threadPc' = "dead") = done)]_vars

\* the caller waits for the lock while the thread reads the flag
C15_Witness ==
  callerPc = "exit_lock" /\ threadPc = "check" /\ lock = "thread" /\ frames > 0

\* C16 (as amended): a successful construction returns a loader whose flag is
\* False and that has no thread, and nothing has been printed, until
\* __enter__ is called.
C16_IdleAfterConstruct ==
  (callerPc = "idle" /\ scope = 0 /\ stopCalls = 0) =>
    (~done /\ ~hasThread /\ threadPc = "none" /\ lock = "free" /\ out = <<>>)

\* C16 (as stated): a successful construction returns a loader whose flag is
\* True and that has no thread.
C16_FlagTrueAfterConstruct ==
  (callerPc = "idle" /\ scope = 0 /\ stopCalls = 0) =>
    (done /\ ~hasThread /\ threadPc = "none")

\* a loader has been constructed and not yet entered
C16_Witness ==
  callerPc = "idle" /\ scope = 0 /\ stopCalls = 0 /\ cls = "BounceLoader"

\* C17: the configuration passed to __init__ and the class's frame sequence
\* are left as they are by __enter__, by every step of the loop and by
\* __exit__.
C17_ConfigImmutable ==
  [][callerPc # "new" =>
       /\ config' = config
       /\ cls' = cls
       /\ ANIMATION_STEPS(cls') = ANIMATION_STEPS(cls)]_vars

\* two scopes have been run and the configuration is one __init__ accepts
C17_Witness ==
  /\ callerPc = "idle" /\ scope = 2 /\ stopCalls = 2 /\ FramesDrawn > 0
  /\ config.desc \in Descs /\ config.end \in Ends
  /\ config.timeout \in Timeouts /\ config.position = "end"

\* frames of scope s printed after the erase line of that scope
FramesAfterErase(s) ==
  {j \in WritesOf("frame") :
     /\ out[j].scope = s
     /\ \E i \in WritesOf("erase") : i < j /\ out[i].scope = s}

\* C18: once __exit__ has set the flag the thread draws at most one more
\* frame, the one whose flag check came before the assignment; a thread that
\* has not passed its first check when the flag is set draws no frame.
C18_AtMostOneLateFrame ==
  /\ [](\A s \in 1..scope : Cardinality(FramesAfterErase(s)) <= 1)
  /\ [][done => (threadPc' = "write" => threadPc = "write")]_vars
  /\ [][(done /\ Len(out') > Len(out) /\ out'[Len(out')].kind = "frame")
          => (threadPc = "write" /\ threadPc' # "write")]_vars
  /\ [][(done /\ threadPc \in {"lock", "check"} /\ frames = 0 /\ callerPc' # "running")
          => frames' = 0]_vars

\* the thread has drawn its late frame after the end message
C18_Witness ==
  /\ threadPc = "sleep" /\ done /\ callerPc = "exit_join"
  /\ out[Len(out)].kind = "frame" /\ Cardinality(FramesAfterErase(scope)) = 1

\* C19: the lock is held only for the flag check or the flag assignment: not
\* by the thread while it prints or sleeps, not by the caller while it
\* prints or waits in join(). So a call of __exit__ can always go on (no
\* deadlock), and its flag assignment never waits for a sleep.
C19_LockHeldBriefly ==
  /\ lock = "thread" => threadPc = "check"
  /\ lock = "caller" => callerPc \in {"enter_locked", "exit_locked"}
  /\ (callerPc = "exit_lock" /\ threadPc \in {"write", "sleep", "advance", "except", "dead", "none"})
       => ENABLED ExitAcquire
  /\ callerPc \in {"exit_lock", "exit_locked", "exit_erase", "exit_print", "exit_join"}
       => ENABLED (ExitAcquire \/ ExitProgress \/ ExitJoinNoThread \/ ThreadProgress)

\* __exit__ takes the lock while the thread sleeps
C19_Witness ==
  callerPc = "exit_locked" /\ lock = "caller" /\ threadPc = "sleep"

\* C20: __exit__ on a loader that was constructed and never entered sets the
\* flag, prints the erase line and the end message, and then fails in
\* "self._thread.join()" since only __enter__ creates self._thread.
C20_StopWithoutStart ==
  /\ (stopCalls > 0 /\ ~hasThread) => callerPc # "idle"
  /\ (callerPc = "exit_join" /\ ~hasThread) => ~ENABLED ExitJoin
  /\ callerPc = "attrError" =>
       /\ ~hasThread /\ threadPc = "none" /\ scope = 0
       /\ done /\ lock = "free"
       /\ Len(out) = 2
       /\ out[1].kind = "erase" /\ out[1].text = <<CR>> \o Spaces(Len(out[1].text) - 1)
       /\ out[2].kind = "completion" /\ LooksLikeCompletion(out[2].text)

\* __exit__ has failed on a never-entered loader
C20_Witness ==
  callerPc = "attrError" /\ stopCalls = 1 /\ cls = "ClockLoader"

(* ------------------ the catalogue of loader classes ------------------ *)
(* One scope of every subclass, run in the schedule in which the thread   *)
(* is at the head of its loop whenever the caller acts: the loader draws  *)
(* up to one full cycle of its frames and is then stopped.                *)

\* the subclasses of BaseLoader
Subclasses ==
  {"SimpleLoader", "LineLoader", "GrowthLoader", "CircleLoader", "PulseLoader",
   "OOOLoader", "WaitLoader", "RocketLoader", "StarLoader", "StarsLoader",
   "CircleDigitLoader", "HourglassLoader", "ClockLoader", "ArrowLoader",
   "AtomicLoader", "DigitLoader", "BounceLoader", "DotLoader", "BartLoader"}

\* values passed as desc to the loaders of the catalogue: "", "ab"
CatalogDescs == {<<>>, <<97, 98>>}

\* the state after __init__ and __enter__ of a loader of any subclass
CatalogInit ==
  /\ callerPc = "running"
  /\ cls \in Subclasses
  /\ config \in [desc : CatalogDescs, end : Ends, timeout : {1},
                 position : {"front", "end"}]
  /\ ~InitRaises(cls, config.position)
  /\ done = FALSE
  /\ lock = "free"
  /\ hasThread = TRUE
  /\ threadPc = "lock"
  /\ step_count = 0
  /\ exitCause = "none"
  /\ scope = 1
  /\ frames = 0
  /\ stopCalls = 0
  /\ out = <<>>

\* one iteration of the loop of _animate with the flag unset: the check, the
\* print, the sleep and the increment
CatalogIterate ==
  /\ callerPc = "running" /\ threadPc = "lock" /\ lock = "free" /\ ~done
  /\ frames < Len(ANIMATION_STEPS(cls))
  /\ out' = Append(out, Write("loop", "frame", scope, step_count,
                              FrameLine(cls, config, step_count)))
  /\ frames' = frames + 1
  /\ step_count' = NextStep(cls, step_count)
  /\ UNCHANGED <<callerVars, done, lock, threadPc, exitCause>>

\* __exit__ called with the thread at the head of its loop: the flag, the two
\* prints, the break of the thread and the join
CatalogExit ==
  /\ callerPc = "running" /\ threadPc = "lock" /\ lock = "free"
  /\ done' = TRUE
  /\ out' = out \o <<Write("stop", "erase", scope, -1, EraseLine(cls, config)),
                     Write("stop", "completion", scope, -1, CompletionLine(config))>>
  /\ threadPc' = "dead"
  /\ exitCause' = "break"
  /\ stopCalls' = stopCalls + 1
  /\ callerPc' = "idle"
  /\ UNCHANGED <<cls, config, lock, hasThread, step_count, scope, frames>>

CatalogNext == CatalogIterate \/ CatalogExit

CatalogSpec == CatalogInit /\ [][CatalogNext]_vars

\* every frame of class c has n characters
FramesHaveLen(c, n) ==
  \A i \in 1..Len(ANIMATION_STEPS(c)) : Len(ANIMATION_STEPS(c)[i]) = n

\* C11 (as stated): for every subclass the frame sequence is non-empty and
\* each of its frames is a string of length 1.
C11_SingleGlyphFrames ==
  /\ Len(ANIMATION_STEPS(cls)) > 0
  /\ FramesHaveLen(cls, 1)

\* C11 (as amended): for every subclass the frame sequence is non-empty and
\* each frame is a non-empty string; it has length 1 in every subclass but
\* BounceLoader, whose frames have three characters, and DotLoader, whose
\* frames have one to four.
C11_FrameLengths ==
  /\ Len(ANIMATION_STEPS(cls)) > 0
  /\ \A i \in 1..Len(ANIMATION_STEPS(cls)) : Len(ANIMATION_STEPS(cls)[i]) >= 1
  /\ cls \notin {"BounceLoader", "DotLoader"} => FramesHaveLen(cls, 1)
  /\ cls = "BounceLoader" => FramesHaveLen(cls, 3)
  /\ cls = "DotLoader" =>
       \A i \in 1..Len(ANIMATION_STEPS(cls)) : Len(ANIMATION_STEPS(cls)[i]) \in 1..4
  /\ \A i \in WritesOf("frame") :
       Len(out[i].text) = Len(config.desc) + 2 + Len(ANIMATION_STEPS(cls)[out[i].idx + 1])

\* a loader whose frames come from split(' ') has drawn its whole cycle
C11_Witness ==
  cls = "ArrowLoader" /\ frames = Len(ANIMATION_STEPS(cls)) /\ step_count = 0

\* C13: the run of spaces __exit__ prints is at least as long as every line
\* the loop printed before it in that scope.
C13_EraseCoversLines ==
  \A i \in WritesOf("erase") :
    \A j \in WritesOf("frame") :
      (j < i /\ out[j].scope = out[i].scope) => Len(out[j].text) <= Len(out[i].text)

=============================================================================
